---- MODULE Spec2Model ----
(***************************************************************************)
(* State machine of the Character.AI chat API (src/main.py): the process-  *)
(* wide session store, the request handlers as interleaved coroutines that *)
(* suspend at each await, and the lifespan's shutdown sweep.               *)
(*                                                                         *)
(* Between two awaits a handler runs without interruption (one asyncio     *)
(* event loop), so each action is the code from one suspension point to    *)
(* the next.  The wrapped PyCharacterAI library is the environment: every  *)
(* awaited call returns or raises nondeterministically.                    *)
(***************************************************************************)
EXTENDS Integers, Sequences, FiniteSets, TLC

----------------------------------------------------------------------------
(* Bounds of the model *)

\* Number of request slots: handlers that can be in flight at the same time.
MaxTasks == 2
\* Size of the identifier space of uuid4().hex[:12], reduced from 16^12.
IdSpace == 2
\* Number of connections get_client hands out during the process lifetime.
MaxClients == 2
\* Longest sequence of events the transport produces for one message.
MaxEvents == 2

Tasks == 1..MaxTasks
SessionIds == 0..(IdSpace - 1)
Clients == 1..MaxClients

----------------------------------------------------------------------------
(* Values *)

DEFAULT_CHARACTER_ID == "dxDIxJrhmT4IE22Gih1OqvER0JZpDkTD5bvui3fh-Qs"

\* Optional[str]: <<>> is None, <<s>> is the string s.
None == <<>>
Some(v) == <<v>>

\* body.character_id of CreateChatRequest: omitted, empty, or a character.
CharacterIdInputs == {None, Some(""), Some("c1")}
\* me.name returned by client.account.fetch_me().
Usernames == {"u1"}
\* chat.chat_id of the chat that client.chat.create_chat() starts on a
\* connection: one chat per connection, so one id per connection.
ChatId(client) == <<"chat", client>>
\* The k-th message event of an answer: author_name and the text of its
\* primary candidate, which is the text accumulated so far (k tokens).
Message(k) == [author_name |-> "bot", text |-> [i \in 1..k |-> i]]
\* Greeting messages returned by create_chat; a greeting without a primary
\* candidate makes get_primary_candidate().text raise.
Greetings == {[author_name |-> "bot", text |-> "hey", primary |-> TRUE],
              [author_name |-> "bot", text |-> "hey", primary |-> FALSE]}
\* str(exc) of an exception other than SessionClosedError.
ExcMsgs == {"boom"}

----------------------------------------------------------------------------
(* The dict `sessions`: CPython keeps the entries in insertion order,      *)
(* leaves a dummy in place of a deleted entry, and updates the value of an *)
(* existing key in place.                                                  *)

Dummy == [live |-> FALSE]

Entry(sid, data) == [live |-> TRUE, session_id |-> sid, data |-> data]

DictIndex(d, sid) ==
    {i \in 1..Len(d) : d[i].live /\ d[i].session_id = sid}

\* session_id in sessions
DictHas(d, sid) == DictIndex(d, sid) # {}

\* sessions[session_id]
DictGet(d, sid) == d[CHOOSE i \in DictIndex(d, sid) : TRUE].data

\* sessions.items(), in iteration order
DictItems(d) == SelectSeq(d, LAMBDA e : e.live)

DictKeys(d) == {d[i].session_id : i \in {j \in 1..Len(d) : d[j].live}}

\* len(sessions)
DictLen(d) == Len(DictItems(d))

\* sessions[session_id] = data
DictSet(d, sid, data) ==
    IF DictHas(d, sid)
    THEN [i \in 1..Len(d) |-> IF i \in DictIndex(d, sid) THEN Entry(sid, data) ELSE d[i]]
    ELSE Append(d, Entry(sid, data))

\* sessions.pop(session_id, None): the dict without the key; no error when
\* the key is absent.
DictPop(d, sid) ==
    [i \in 1..Len(d) |-> IF i \in DictIndex(d, sid) THEN Dummy ELSE d[i]]

\* The connections owned by the records of the store.
StoredClients(d) == {d[i].data.client : i \in {j \in 1..Len(d) : d[j].live}}

----------------------------------------------------------------------------
VARIABLES
    sessions,    \* the store (main.py:27)
    req,         \* req[t]: the handler running in slot t, its position and locals
    nextClient,  \* the next connection get_client creates
    released,    \* connections on which close_session() was called
    issued,      \* session ids returned by successful create_session calls
    closedIds,   \* session ids for which close_session reported success
    sd           \* the lifespan: position of the shutdown sweep; start: the
                 \* connections stored when it began; failed: those whose
                 \* release raised

vars == <<sessions, req, nextClient, released, issued, closedIds, sd>>

Idle == [pc |-> "idle"]

\* A finished handler: the response the caller receives.
Done(kind, status, fields) ==
    [pc |-> "done", kind |-> kind, status |-> status, body |-> fields]

Serving == sd.pc = "running"
Alive == sd.pc \in {"running", "sweep"}

Init ==
    /\ sessions = <<>>
    /\ req = [t \in Tasks |-> Idle]
    /\ nextClient = 1
    /\ released = {}
    /\ issued = {}
    /\ closedIds = {}
    /\ sd = [pc |-> "running"]

----------------------------------------------------------------------------
(* GET /sessions *)

SessionInfo(e) ==
    [session_id |-> e.session_id, chat_id |-> e.data.chat_id,
     character_id |-> e.data.character_id, username |-> e.data.username]

ListSessions(d) ==
    [i \in 1..DictLen(d) |-> SessionInfo(DictItems(d)[i])]

list_sessions(t) ==
    /\ Serving
    /\ req[t] = Idle
    /\ req' = [req EXCEPT ![t] = Done("list_sessions", 200, ListSessions(sessions))]
    /\ UNCHANGED <<sessions, nextClient, released, issued, closedIds, sd>>

----------------------------------------------------------------------------
(* POST /sessions *)

\* body.character_id or DEFAULT_CHARACTER_ID
ResolveCharacterId(opt) ==
    IF opt # None /\ opt[1] # "" THEN opt[1] ELSE DEFAULT_CHARACTER_ID

CreateFailed == Done("create_session", 500, [detail |-> "Failed to create session"])

\* Up to the first await: get_client(token=TOKEN) is called.
create_session(t, character_id_in) ==
    /\ Serving
    /\ req[t] = Idle
    /\ req' = [req EXCEPT ![t] = [pc |-> "get_client", kind |-> "create_session",
                                  body |-> [character_id |-> character_id_in],
                                  character_id |-> ResolveCharacterId(character_id_in)]]
    /\ UNCHANGED <<sessions, nextClient, released, issued, closedIds, sd>>

\* One connection shared by every session.
AcquiredClientShared(next) == 1

\* client = await get_client(token=TOKEN): each call of the handler makes a
\* connection of its own.
AcquiredClient(next) == next

\* get_client returns a fresh connection, or raises.
create_got_client(t, ok) ==
    /\ Alive
    /\ req[t].pc = "get_client"
    /\ IF ok
       THEN /\ nextClient <= MaxClients
            /\ req' = [req EXCEPT ![t] = [pc |-> "fetch_me", kind |-> "create_session",
                                          body |-> req[t].body,
                                          character_id |-> req[t].character_id,
                                          client |-> AcquiredClient(nextClient)]]
            /\ nextClient' = nextClient + 1
       ELSE /\ req' = [req EXCEPT ![t] = CreateFailed]
            /\ UNCHANGED nextClient
    /\ UNCHANGED <<sessions, released, issued, closedIds, sd>>

\* client.account.fetch_me() returns the account, or raises.
create_fetched_me(t, ok, name) ==
    /\ Alive
    /\ req[t].pc = "fetch_me"
    /\ IF ok
       THEN req' = [req EXCEPT ![t] = [pc |-> "create_chat", kind |-> "create_session",
                                       body |-> req[t].body,
                                       character_id |-> req[t].character_id,
                                       client |-> req[t].client,
                                       username |-> name]]
       ELSE req' = [req EXCEPT ![t] = CreateFailed]
    /\ UNCHANGED <<sessions, nextClient, released, issued, closedIds, sd>>

\* A record that keeps the default character instead of the resolved one.
SessionRecordDefaultCharacter(client, chat_id, character_id, username) ==
    [client |-> client, chat_id |-> chat_id,
     character_id |-> DEFAULT_CHARACTER_ID, username |-> username]

\* The record stored under the new session id (main.py:144-149).
SessionRecord(client, chat_id, character_id, username) ==
    [client |-> client, chat_id |-> chat_id,
     character_id |-> character_id, username |-> username]

CreateChatResponse(sid, chat_id, character_id, username, greeting) ==
    Done("create_session", 201,
         [session_id |-> sid, chat_id |-> chat_id, character_id |-> character_id,
          username |-> username, greeting |-> greeting.text,
          greeting_author |-> greeting.author_name])

\* client.chat.create_chat() raises.
create_chat_failed(t) ==
    /\ Alive
    /\ req[t].pc = "create_chat"
    /\ req' = [req EXCEPT ![t] = CreateFailed]
    /\ UNCHANGED <<sessions, nextClient, released, issued, closedIds, sd>>

\* client.chat.create_chat() returns (chat, greeting_message): the session id
\* is drawn, the record stored, and the greeting extracted; the rest of the
\* handler has no await.
create_chat_created(t, greeting, sid) ==
    /\ Alive
    /\ req[t].pc = "create_chat"
    /\ sessions' = DictSet(sessions, sid,
                           SessionRecord(req[t].client, ChatId(req[t].client),
                                         req[t].character_id, req[t].username))
    /\ IF greeting.primary
       THEN /\ req' = [req EXCEPT ![t] =
                          CreateChatResponse(sid, ChatId(req[t].client),
                                             req[t].character_id,
                                             req[t].username, greeting)]
            /\ issued' = issued \cup {sid}
       ELSE /\ req' = [req EXCEPT ![t] = CreateFailed]
            /\ UNCHANGED issued
    /\ UNCHANGED <<nextClient, released, closedIds, sd>>

----------------------------------------------------------------------------
(* POST /sessions/{session_id}/messages *)

\* The lookup failure reported as an internal error.
NotFoundAsInternal(kind, sid) ==
    [pc |-> "done", kind |-> kind, status |-> 500,
     body |-> [detail |-> "KeyError"], session_id |-> sid]

\* raise HTTPException(status_code=404, ...)
NotFound(kind, sid) ==
    [pc |-> "done", kind |-> kind, status |-> 404,
     body |-> [detail |-> "Session not found."], session_id |-> sid]

\* The locals of a relay after the lookup (main.py:176-179, 222-225).
Relay(kind, pc, sid, data) ==
    [pc |-> pc, kind |-> kind, session_id |-> sid, client |-> data.client,
     chat_id |-> data.chat_id, character_id |-> data.character_id,
     upstream |-> <<>>, final_message |-> None, out |-> <<>>]

\* A finished relay: the response, and what the transport did (upstream: the
\* events it produced; signal: how its sequence ended).
RelayDone(r, status, fields, signal) ==
    [pc |-> "done", kind |-> r.kind, status |-> status, body |-> fields,
     session_id |-> r.session_id, upstream |-> r.upstream, signal |-> signal]

\* Up to the await of client.chat.send_message(...).
send_message(t, sid) ==
    /\ Serving
    /\ req[t] = Idle
    /\ IF ~DictHas(sessions, sid)
       THEN req' = [req EXCEPT ![t] = NotFound("send_message", sid)]
       ELSE req' = [req EXCEPT ![t] =
                       Relay("send_message", "send_call", sid, DictGet(sessions, sid))]
    /\ UNCHANGED <<sessions, nextClient, released, issued, closedIds, sd>>

\* sessions.pop(session_id) without the default: KeyError when the key is gone.
PopRaisesWithoutDefault(d, sid) == ~DictHas(d, sid)

\* sessions.pop(session_id, None) raises no KeyError, whether or not the key
\* is still there.
PopRaises(d, sid) == FALSE

\* except SessionClosedError (main.py:202-204)
SendClosed(t) ==
    /\ sessions' = DictPop(sessions, req[t].session_id)
    /\ req' = [req EXCEPT ![t] =
                 IF PopRaises(sessions, req[t].session_id)
                 THEN RelayDone(req[t], 500, [detail |-> "KeyError"], "closed")
                 ELSE RelayDone(req[t], 410, [detail |-> "Session has been closed."],
                                "closed")]

\* A handler that evicts the session on every exception of the transport.
SendErrorEvicts(t, msg) ==
    /\ req' = [req EXCEPT ![t] =
                 RelayDone(req[t], 500, [detail |-> msg], "error")]
    /\ sessions' = DictPop(sessions, req[t].session_id)

\* except Exception (main.py:207-208)
SendError(t, msg) ==
    /\ req' = [req EXCEPT ![t] =
                 RelayDone(req[t], 500, [detail |-> msg], "error")]
    /\ UNCHANGED sessions

\* client.chat.send_message(...) returns the answer, or raises.
send_called(t, outcome, msg) ==
    /\ Alive
    /\ req[t].pc = "send_call"
    /\ CASE outcome = "ok" ->
              /\ req' = [req EXCEPT ![t].pc = "send_iter"]
              /\ UNCHANGED sessions
         [] outcome = "closed" -> SendClosed(t)
         [] outcome = "error" -> SendError(t, msg)
    /\ UNCHANGED <<nextClient, released, issued, closedIds, sd>>

\* A loop that keeps the first event instead of the last.
NextFinalKeepsFirst(final_message, msg) ==
    IF final_message = None THEN Some(msg) ELSE final_message

\* final_message = msg (main.py:192)
NextFinal(final_message, msg) == Some(msg)

\* After the loop (main.py:194-200).
SendResult(r) ==
    IF r.final_message = None
    THEN RelayDone(r, 502, [detail |-> "No response received from character."],
                   "complete")
    ELSE RelayDone(r, 200, [author |-> r.final_message[1].author_name,
                            text |-> r.final_message[1].text], "complete")

\* One step of `async for msg in answer`: the next event, the end of the
\* sequence, or an exception.
send_next(t, outcome, msg) ==
    /\ Alive
    /\ req[t].pc = "send_iter"
    /\ CASE outcome = "msg" ->
              /\ Len(req[t].upstream) < MaxEvents
              /\ LET m == Message(Len(req[t].upstream) + 1)
                 IN req' = [req EXCEPT ![t].upstream = Append(@, m),
                                       ![t].final_message = NextFinal(@, m)]
              /\ UNCHANGED sessions
         [] outcome = "complete" ->
              /\ req' = [req EXCEPT ![t] = SendResult(req[t])]
              /\ UNCHANGED sessions
         [] outcome = "closed" -> SendClosed(t)
         [] outcome = "error" -> SendError(t, msg)
    /\ UNCHANGED <<nextClient, released, issued, closedIds, sd>>

----------------------------------------------------------------------------
(* POST /sessions/{session_id}/messages/stream *)

\* One server-sent event: "data: <payload>\n\n".  The payload is the
\* literal [DONE] or the JSON object json.dumps writes, here a record.
Sse(payload) == [data |-> payload]

DoneEvent == Sse([literal |-> "[DONE]"])
DataEvent(msg) == Sse([author |-> msg.author_name, text |-> msg.text])
ErrorEvent(msg) == Sse([error |-> msg])

IsData(e) == DOMAIN e.data = {"author", "text"}
IsError(e) == DOMAIN e.data = {"error"}
IsTerminal(e) == e = DoneEvent \/ IsError(e)

\* Up to the return of the StreamingResponse; the generator has not started.
send_message_stream(t, sid) ==
    /\ Serving
    /\ req[t] = Idle
    /\ IF ~DictHas(sessions, sid)
       THEN req' = [req EXCEPT ![t] = NotFound("send_message_stream", sid)]
       ELSE req' = [req EXCEPT ![t] =
                       Relay("send_message_stream", "stream_call", sid,
                             DictGet(sessions, sid))]
    /\ UNCHANGED <<sessions, nextClient, released, issued, closedIds, sd>>

\* The stream as the caller has it when the generator returns.
StreamDone(r, out, signal) ==
    [pc |-> "done", kind |-> r.kind, status |-> 200, body |-> out,
     session_id |-> r.session_id, upstream |-> r.upstream, signal |-> signal]

\* A relay that replaces the previous data event instead of adding one.
YieldDataCoalesced(out, msg) ==
    IF out = <<>> THEN <<DataEvent(msg)>>
    ELSE [out EXCEPT ![Len(out)] = DataEvent(msg)]

\* yield f"data: {payload}\n\n" (main.py:239-241)
YieldData(out, msg) == Append(out, DataEvent(msg))

\* A generator that returns without the completion sentinel.
YieldDoneOmitted(out) == out

\* yield "data: [DONE]\n\n" (main.py:243)
YieldDone(out) == Append(out, DoneEvent)

\* except SessionClosedError (main.py:245-247); a KeyError raised by the pop
\* would leave the generator before its yield.
StreamClosed(t) ==
    /\ sessions' = DictPop(sessions, req[t].session_id)
    /\ req' = [req EXCEPT ![t] =
                 IF PopRaises(sessions, req[t].session_id)
                 THEN StreamDone(req[t], req[t].out, "closed")
                 ELSE StreamDone(req[t], Append(req[t].out, ErrorEvent("Session closed")),
                                 "closed")]

\* A stream whose failure is raised as an HTTP error instead of an event.
StreamErrorAsStatus(t, msg) ==
    /\ req' = [req EXCEPT ![t] =
                 [pc |-> "done", kind |-> req[t].kind, status |-> 500,
                  body |-> req[t].out, session_id |-> req[t].session_id,
                  upstream |-> req[t].upstream, signal |-> "error"]]
    /\ UNCHANGED sessions

\* except Exception (main.py:248-249)
StreamError(t, msg) ==
    /\ req' = [req EXCEPT ![t] =
                 StreamDone(req[t], Append(req[t].out, ErrorEvent(msg)), "error")]
    /\ UNCHANGED sessions

\* client.chat.send_message(...) returns the answer, or raises.
stream_called(t, outcome, msg) ==
    /\ Alive
    /\ req[t].pc = "stream_call"
    /\ CASE outcome = "ok" ->
              /\ req' = [req EXCEPT ![t].pc = "stream_iter"]
              /\ UNCHANGED sessions
         [] outcome = "closed" -> StreamClosed(t)
         [] outcome = "error" -> StreamError(t, msg)
    /\ UNCHANGED <<nextClient, released, issued, closedIds, sd>>

\* One step of `async for msg in answer` and the yield of its event.
stream_next(t, outcome, msg) ==
    /\ Alive
    /\ req[t].pc = "stream_iter"
    /\ CASE outcome = "msg" ->
              /\ Len(req[t].upstream) < MaxEvents
              /\ LET m == Message(Len(req[t].upstream) + 1)
                 IN req' = [req EXCEPT ![t].upstream = Append(@, m),
                                       ![t].out = YieldData(@, m)]
              /\ UNCHANGED sessions
         [] outcome = "complete" ->
              /\ req' = [req EXCEPT ![t] =
                           StreamDone(req[t], YieldDone(req[t].out), "complete")]
              /\ UNCHANGED sessions
         [] outcome = "closed" -> StreamClosed(t)
         [] outcome = "error" -> StreamError(t, msg)
    /\ UNCHANGED <<nextClient, released, issued, closedIds, sd>>

\* A generator that handles its cancellation like a closed session.
CancelEvictsAlways(r) == TRUE

\* The CancelledError (or GeneratorExit) of a cancelled generator is neither
\* a SessionClosedError nor an Exception: no except clause of main.py:245-249
\* runs, so the pop is not reached.
CancelEvicts(r) == FALSE

\* The caller disconnects: the generator is cancelled where it is suspended.
stream_cancelled(t) ==
    /\ Alive
    /\ req[t].pc \in {"stream_call", "stream_iter"}
    /\ req' = [req EXCEPT ![t] = StreamDone(req[t], req[t].out, "cancelled")]
    /\ sessions' = IF CancelEvicts(req[t])
                   THEN DictPop(sessions, req[t].session_id)
                   ELSE sessions
    /\ UNCHANGED <<nextClient, released, issued, closedIds, sd>>

----------------------------------------------------------------------------
(* DELETE /sessions/{session_id} *)

\* Up to the await of data["client"].close_session(): the record is popped.
close_session(t, sid) ==
    /\ Serving
    /\ req[t] = Idle
    /\ IF ~DictHas(sessions, sid)
       THEN /\ req' = [req EXCEPT ![t] = NotFound("close_session", sid)]
            /\ UNCHANGED sessions
       ELSE /\ req' = [req EXCEPT ![t] =
                          [pc |-> "close_release", kind |-> "close_session",
                           session_id |-> sid,
                           client |-> DictGet(sessions, sid).client]]
            /\ sessions' = DictPop(sessions, sid)
    /\ UNCHANGED <<nextClient, released, issued, closedIds, sd>>

\* A handler that lets the exception of a failed release through.
CloseSwallowsNothing(ok) == ok

\* try/except Exception: pass around the release (main.py:261-264): the
\* exception of a failed release goes no further.
CloseSwallows(ok) == TRUE

\* The release returns or raises; the handler returns its result.
close_released(t, ok) ==
    /\ Alive
    /\ req[t].pc = "close_release"
    /\ released' = released \cup {req[t].client}
    /\ IF ok \/ CloseSwallows(ok)
       THEN /\ req' = [req EXCEPT ![t] =
                          [pc |-> "done", kind |-> "close_session", status |-> 200,
                           body |-> [status |-> "closed",
                                     session_id |-> req[t].session_id],
                           session_id |-> req[t].session_id, release_ok |-> ok]]
            /\ closedIds' = closedIds \cup {req[t].session_id}
       ELSE /\ req' = [req EXCEPT ![t] =
                          [pc |-> "done", kind |-> "close_session", status |-> 500,
                           body |-> [detail |-> "Internal Server Error"],
                           session_id |-> req[t].session_id, release_ok |-> ok]]
            /\ UNCHANGED closedIds
    /\ UNCHANGED <<sessions, nextClient, issued, sd>>

----------------------------------------------------------------------------
(* lifespan: the sweep after the yield *)

\* iter(sessions.items()): CPython's dict iterator remembers the size of the
\* dict (di_used), its position in the entries (di_pos) and the number of
\* items left (len).
DictIter(d) == [di_used |-> DictLen(d), di_pos |-> 0, len |-> DictLen(d)]

\* next(it): "raise" (RuntimeError: the dict changed during the iteration),
\* "stop" (StopIteration) or the index of the next entry.
IterNext(d, it) ==
    LET rest == {i \in (it.di_pos + 1)..Len(d) : d[i].live}
    IN IF it.di_used # DictLen(d) THEN [kind |-> "raise"]
       ELSE IF rest = {} THEN [kind |-> "stop"]
       ELSE IF it.len = 0 THEN [kind |-> "raise"]
       ELSE [kind |-> "item", index |-> CHOOSE i \in rest : \A j \in rest : i <= j]

\* The loop head of `for sid, data in sessions.items()`: the next record's
\* release is awaited, or the loop ends and sessions.clear() runs, or the
\* RuntimeError leaves the lifespan.
SweepStep(it, start, failed) ==
    LET n == IterNext(sessions, it)
    IN CASE n.kind = "raise" ->
              /\ sd' = [pc |-> "raised", start |-> start, failed |-> failed]
              /\ UNCHANGED sessions
         [] n.kind = "stop" ->
              /\ sd' = [pc |-> "done", start |-> start, failed |-> failed]
              /\ sessions' = <<>>
         [] n.kind = "item" ->
              /\ sd' = [pc |-> "sweep", start |-> start, failed |-> failed,
                        client |-> sessions[n.index].data.client,
                        it |-> [it EXCEPT !.di_pos = n.index, !.len = @ - 1]]
              /\ UNCHANGED sessions

\* The application shuts down: the lifespan resumes after its yield.
shutdown(quiet) ==
    /\ Serving
    /\ quiet => \A t \in Tasks : req[t] = Idle
    /\ SweepStep(DictIter(sessions), StoredClients(sessions), {})
    /\ UNCHANGED <<req, nextClient, released, issued, closedIds>>

\* A sweep that lets the exception of a failed release through.
SweepSwallowsNothing(ok) == ok

\* try/except Exception: pass around the release (main.py:38-41).
SweepSwallows(ok) == TRUE

\* The release of the current record returns or raises.
shutdown_released(ok) ==
    /\ sd.pc = "sweep"
    /\ released' = released \cup {sd.client}
    /\ IF ok \/ SweepSwallows(ok)
       THEN SweepStep(sd.it, sd.start, IF ok THEN sd.failed ELSE sd.failed \cup {sd.client})
       ELSE /\ sd' = [pc |-> "raised", start |-> sd.start,
                      failed |-> sd.failed \cup {sd.client}]
            /\ UNCHANGED sessions
    /\ UNCHANGED <<req, nextClient, issued, closedIds>>

----------------------------------------------------------------------------
\* The response is delivered and the slot is free for the next request.
reply(t) ==
    /\ Alive
    /\ req[t].pc = "done"
    /\ req' = [req EXCEPT ![t] = Idle]
    /\ UNCHANGED <<sessions, nextClient, released, issued, closedIds, sd>>

RelayOutcomes == {"msg", "complete", "closed", "error"}

Requests ==
    \/ \E t \in Tasks : list_sessions(t)
    \/ \E t \in Tasks, c \in CharacterIdInputs : create_session(t, c)
    \/ \E t \in Tasks, ok \in BOOLEAN : create_got_client(t, ok)
    \/ \E t \in Tasks, ok \in BOOLEAN, name \in Usernames : create_fetched_me(t, ok, name)
    \/ \E t \in Tasks : create_chat_failed(t)
    \/ \E t \in Tasks, g \in Greetings, sid \in SessionIds :
          create_chat_created(t, g, sid)
    \/ \E t \in Tasks, sid \in SessionIds : send_message(t, sid)
    \/ \E t \in Tasks, o \in {"ok", "closed", "error"}, m \in ExcMsgs : send_called(t, o, m)
    \/ \E t \in Tasks, o \in RelayOutcomes, m \in ExcMsgs : send_next(t, o, m)
    \/ \E t \in Tasks, sid \in SessionIds : send_message_stream(t, sid)
    \/ \E t \in Tasks, o \in {"ok", "closed", "error"}, m \in ExcMsgs : stream_called(t, o, m)
    \/ \E t \in Tasks, o \in RelayOutcomes, m \in ExcMsgs : stream_next(t, o, m)
    \/ \E t \in Tasks : stream_cancelled(t)
    \/ \E t \in Tasks, sid \in SessionIds : close_session(t, sid)
    \/ \E t \in Tasks, ok \in BOOLEAN : close_released(t, ok)
    \/ \E t \in Tasks : reply(t)

\* Requests in flight go on while the lifespan sweeps the store.
Next ==
    \/ Requests
    \/ shutdown(FALSE)
    \/ \E ok \in BOOLEAN : shutdown_released(ok)

Spec == Init /\ [][Next]_vars

\* The server has answered every request before it lets the lifespan resume.
NextGraceful ==
    \/ Requests
    \/ shutdown(TRUE)
    \/ \E ok \in BOOLEAN : shutdown_released(ok)

SpecGraceful == Init /\ [][NextGraceful]_vars

----------------------------------------------------------------------------
(* Properties *)

\* The step in which create_session returns its 201 response.
Created(t) ==
    req[t].pc = "create_chat" /\ req'[t].pc = "done" /\ req'[t].status = 201

\* The step in which the handler of a request on a session id starts.
Starts(t, kinds) ==
    req[t] = Idle /\ req'[t] # Idle /\ req'[t].kind \in kinds

\* The session ids list_sessions shows for a store.
ListedIds(d) == {ListSessions(d)[i].session_id : i \in 1..Len(ListSessions(d))}

IsStream(r) ==
    \/ r.pc \in {"stream_call", "stream_iter"}
    \/ r.pc = "done" /\ r.kind = "send_message_stream" /\ r.status = 200

\* The events the caller of a stream has received.
StreamOut(r) == IF r.pc = "done" THEN r.body ELSE r.out

Terminals(out) == {i \in 1..Len(out) : IsTerminal(out[i])}

\* C1: every successful create_session returns a session id that no earlier
\* successful create_session returned, and never stores it over an entry
\* that is in the store.
C1_SessionIdNeverReused ==
    [][\A t \in Tasks :
         Created(t) =>
            /\ req'[t].body.session_id \notin issued
            /\ ~DictHas(sessions, req'[t].body.session_id)]_vars

\* C2: when create_session returns session_id s, list_sessions of the store
\* at that moment has exactly one entry for s, and its chat_id, character_id
\* and username are those of the response.
C2_CreatedSessionIsListed ==
    [][\A t \in Tasks :
         Created(t) =>
            LET b == req'[t].body
                l == ListSessions(sessions')
                own == {i \in 1..Len(l) : l[i].session_id = b.session_id}
            IN /\ Cardinality(own) = 1
               /\ \A i \in own : /\ l[i].chat_id = b.chat_id
                                 /\ l[i].character_id = b.character_id
                                 /\ l[i].username = b.username]_vars

C2_Witness ==
    \E t \in Tasks :
       /\ req[t].pc = "done" /\ req[t].kind = "create_session" /\ req[t].status = 201
       /\ req[t].body.character_id = "c1"
       /\ DictLen(sessions) = 2
       /\ req[t].body.session_id \in ListedIds(sessions)

\* C3: once close_session(id) has reported success, id is in no later
\* list_sessions, and every later close_session, send_message or
\* send_message_stream on id ends with 404.
C3_ClosedSessionStaysGone ==
    [][\A s \in closedIds :
         /\ s \notin ListedIds(sessions')
         /\ \A t \in Tasks :
              (/\ Starts(t, {"send_message", "send_message_stream", "close_session"})
               /\ req'[t].session_id = s)
              => (req'[t].pc = "done" /\ req'[t].status = 404)]_vars

\* C4: a send_message or send_message_stream on a session id that is not in
\* the store ends with 404 in the step of the lookup: the handler never
\* reaches the call of the transport, and the store is unchanged.
C4_UnknownIdIsNotFound ==
    [][\A t \in Tasks :
         (/\ Starts(t, {"send_message", "send_message_stream"})
          /\ ~DictHas(sessions, req'[t].session_id))
         => /\ req'[t].pc = "done"
            /\ req'[t].status = 404
            /\ sessions' = sessions]_vars

C4_Witness ==
    \E t \in Tasks :
       /\ req[t].pc = "done" /\ req[t].kind = "send_message_stream"
       /\ req[t].status = 404
       /\ DictLen(sessions) > 0

\* C5: a send_message whose transport sequence completes returns 200 with the
\* author and text of the last event of the sequence, or 502 when the
\* sequence has no event; it returns 200 in no other case.
C5_SendReturnsLastEvent ==
    \A t \in Tasks :
       (req[t].pc = "done" /\ req[t].kind = "send_message" /\ req[t].status # 404)
       => LET r == req[t]
          IN /\ (r.signal = "complete" /\ r.upstream = <<>>) => r.status = 502
             /\ (r.signal = "complete" /\ r.upstream # <<>>) =>
                   /\ r.status = 200
                   /\ r.body = [author |-> r.upstream[Len(r.upstream)].author_name,
                                text |-> r.upstream[Len(r.upstream)].text]
             /\ r.status = 200 => (r.signal = "complete" /\ r.upstream # <<>>)

C5_Witness ==
    \E t \in Tasks :
       /\ req[t].pc = "done" /\ req[t].kind = "send_message" /\ req[t].status = 200
       /\ Len(req[t].upstream) = MaxEvents

\* C6: the data events a stream has delivered are the events the transport
\* has produced so far, one for one and in the same order, with the author
\* and text of each.
C6_StreamRelaysInOrder ==
    \A t \in Tasks :
       IsStream(req[t]) =>
          SelectSeq(StreamOut(req[t]), IsData)
             = [i \in 1..Len(req[t].upstream) |-> DataEvent(req[t].upstream[i])]

C6_Witness ==
    \E t \in Tasks :
       /\ req[t].pc = "done" /\ req[t].kind = "send_message_stream"
       /\ req[t].status = 200 /\ req[t].signal = "error"
       /\ Len(req[t].upstream) = MaxEvents

\* C7: a stream has at most one terminal event and nothing after it; a stream
\* that ended and was not cancelled has exactly one: [DONE] when the transport
\* completed, an error event when it failed.
C7_StreamEndsWithOneTerminal ==
    \A t \in Tasks :
       IsStream(req[t]) =>
          LET r == req[t]
              out == StreamOut(r)
              T == Terminals(out)
          IN /\ Cardinality(T) <= 1
             /\ \A i \in T : i = Len(out)
             /\ r.pc # "done" => T = {}
             /\ (r.pc = "done" /\ r.signal # "cancelled") => Cardinality(T) = 1
             /\ (r.pc = "done" /\ r.signal = "complete") => out[Len(out)] = DoneEvent
             /\ (r.pc = "done" /\ r.signal \in {"closed", "error"}) =>
                   IsError(out[Len(out)])

C7_Witness ==
    \E t \in Tasks :
       /\ req[t].pc = "done" /\ req[t].kind = "send_message_stream"
       /\ req[t].status = 200 /\ req[t].signal = "complete"
       /\ Len(req[t].body) = MaxEvents + 1

\* The step in which a relay handles the SessionClosedError of the transport.
ClosedSignalled(t) ==
    /\ req[t].pc \in {"send_call", "send_iter", "stream_call", "stream_iter"}
    /\ req'[t].pc = "done"
    /\ req'[t].signal = "closed"

\* C8: the relay that receives the closed-session signal answers 410, or ends
\* its stream with the 'Session closed' error event; in the state of that
\* answer the session id is not in the store, the step has removed at most
\* the entry of that id and no other, also when the entry was already removed.
C8_ClosedSessionIsGone ==
    [][\A t \in Tasks :
         ClosedSignalled(t) =>
            /\ ~DictHas(sessions', req[t].session_id)
            /\ DictKeys(sessions') = DictKeys(sessions) \ {req[t].session_id}
            /\ \A s \in DictKeys(sessions') :
                  DictGet(sessions', s) = DictGet(sessions, s)
            /\ req[t].kind = "send_message" => req'[t].status = 410
            /\ req[t].kind = "send_message_stream" =>
                  req'[t].body = Append(req[t].out, ErrorEvent("Session closed"))]_vars

C8_Witness ==
    \E t1, t2 \in Tasks :
       /\ t1 # t2
       /\ req[t1].pc = "done" /\ req[t1].kind = "send_message" /\ req[t1].status = 410
       /\ req[t2].pc = "done" /\ req[t2].kind = "send_message_stream"
       /\ req[t2].status = 200 /\ req[t2].signal = "closed"
       /\ req[t1].session_id = req[t2].session_id
       /\ issued = {req[t1].session_id}
       /\ closedIds = {}

\* C9: the shutdown sweep never raises, and when it is over the store is
\* empty and a release was attempted on the connection of every record that
\* was in the store when it began, whichever releases failed.
C9_ShutdownSweepsAll ==
    /\ sd.pc # "raised"
    /\ sd.pc = "done" => (DictLen(sessions) = 0 /\ sd.start \subseteq released)

C9_Witness ==
    /\ sd.pc = "done"
    /\ Cardinality(sd.start) = 2
    /\ Cardinality(sd.failed) = 1

\* C10: while close_session awaits the release its record is no longer in the
\* store; whether the release returns or raises, the handler answers 200
\* {status: closed, session_id} and leaves the store as it is.
C10_CloseReportsSuccess ==
    [][\A t \in Tasks :
         /\ req'[t].pc = "close_release" =>
               req'[t].client \notin StoredClients(sessions')
         /\ (req[t].pc = "close_release" /\ req'[t].pc = "done") =>
               /\ req'[t].status = 200
               /\ req'[t].body = [status |-> "closed",
                                  session_id |-> req[t].session_id]
               /\ sessions' = sessions]_vars

C10_Witness ==
    \E t \in Tasks :
       /\ req[t].pc = "done" /\ req[t].kind = "close_session"
       /\ req[t].status = 200 /\ ~req[t].release_ok

----------------------------------------------------------------------------
(* Properties of the frame, of the connections and of the interleavings *)

RelayPcs == {"send_call", "send_iter", "stream_call", "stream_iter"}

\* The step in which a relay returns its response or ends its stream.
RelayEnds(t) == req[t].pc \in RelayPcs /\ req'[t].pc = "done"

\* The connections on which close_session() has been called: the calls that
\* have returned or raised, and those still awaited.
ReleaseAttempted ==
    released
      \cup {req[t].client : t \in {u \in Tasks : req[u].pc = "close_release"}}
      \cup (IF sd.pc = "sweep" THEN {sd.client} ELSE {})

\* The connections get_client has handed out.
Acquired == 1..(nextClient - 1)

\* C11: the step in which a stream is cancelled forwards no event, leaves the
\* store as it is and calls no release.
C11_CancelKeepsSession ==
    [][\A t \in Tasks :
         (RelayEnds(t) /\ req'[t].signal = "cancelled")
         => /\ req'[t].body = req[t].out
            /\ sessions' = sessions
            /\ released' = released
            /\ ReleaseAttempted' = ReleaseAttempted]_vars

C11_Witness ==
    \E t \in Tasks :
       /\ req[t].pc = "done" /\ req[t].kind = "send_message_stream"
       /\ req[t].status = 200 /\ req[t].signal = "cancelled"
       /\ Len(req[t].body) = 1
       /\ DictHas(sessions, req[t].session_id)
       /\ ReleaseAttempted = {}

\* C12: no two records of the store own the same connection.
C12_ConnectionOwnedOnce ==
    \A i, j \in 1..Len(sessions) :
       (/\ sessions[i].live /\ sessions[j].live
        /\ sessions[i].data.client = sessions[j].data.client)
       => i = j

C12_Witness ==
    /\ DictLen(sessions) = 2
    /\ Cardinality(StoredClients(sessions)) = 2

\* C13: a successful create_session stores and returns the default character
\* id when character_id is omitted, and the supplied string, whatever it is,
\* when one is supplied.
C13_CharacterIdAsSupplied ==
    [][\A t \in Tasks :
         Created(t) =>
            LET supplied == req[t].body.character_id
                expected == IF supplied = None THEN DEFAULT_CHARACTER_ID
                            ELSE supplied[1]
            IN /\ req'[t].body.character_id = expected
               /\ DictGet(sessions', req'[t].body.session_id).character_id
                     = expected]_vars

\* C14: whenever the record of a connection leaves the store, close_session()
\* has been called on that connection.
C14_RemovalReleases ==
    [][\A c \in StoredClients(sessions) \ StoredClients(sessions') :
         c \in ReleaseAttempted']_vars

\* C15: a send_message_stream answers 404 only in the step of the lookup, for
\* an id that is not in the store; once the relay has begun it ends with
\* status 200, and a failure of the transport adds one error event to the
\* events already delivered.
C15_StreamFailuresInBand ==
    [][\A t \in Tasks :
         (/\ req[t].pc # "done" /\ req'[t].pc = "done"
          /\ req'[t].kind = "send_message_stream")
         => IF req[t] = Idle
            THEN /\ req'[t].status = 404
                 /\ ~DictHas(sessions, req'[t].session_id)
            ELSE /\ req'[t].status = 200
                 /\ req'[t].signal \in {"closed", "error"} =>
                       /\ Len(req'[t].body) = Len(req[t].out) + 1
                       /\ SubSeq(req'[t].body, 1, Len(req[t].out)) = req[t].out
                       /\ IsError(req'[t].body[Len(req'[t].body)])]_vars

C15_Witness ==
    \E t \in Tasks :
       /\ req[t].pc = "done" /\ req[t].kind = "send_message_stream"
       /\ req[t].status = 200 /\ req[t].signal = "error"
       /\ req[t].upstream = <<>>
       /\ req[t].body = <<ErrorEvent("boom")>>

C17_FailedCreateStoresNothing ==
    [][\A t \in Tasks :
         (/\ req[t].pc \in {"get_client", "fetch_me", "create_chat"}
          /\ req'[t] = CreateFailed)
         => sessions' = sessions]_vars

\* C18: every connection get_client has handed out is owned by a record of
\* the store, or has had close_session() called on it, or is held by a
\* create_session that has not finished.
C18_NoConnectionLeaked ==
    \A c \in Acquired :
       \/ c \in StoredClients(sessions)
       \/ c \in ReleaseAttempted
       \/ \E t \in Tasks : req[t].pc \in {"fetch_me", "create_chat"} /\ req[t].client = c

\* C19: a relay that ends adds no key to the store and removes no record but
\* the one it looked up; only create_session adds a key; and an id that
\* close_session has removed never comes back.
C19_NoReinsertion ==
    [][/\ \A t \in Tasks :
            RelayEnds(t) =>
               /\ DictKeys(sessions') \subseteq DictKeys(sessions)
               /\ \A s \in DictKeys(sessions) :
                     DictGet(sessions, s).client # req[t].client
                     => /\ DictHas(sessions', s)
                        /\ DictGet(sessions', s) = DictGet(sessions, s)
       /\ ~(DictKeys(sessions') \subseteq DictKeys(sessions)) =>
            \E t \in Tasks : req[t].pc = "create_chat" /\ req'[t].pc = "done"
       /\ \A s \in closedIds : ~DictHas(sessions', s)]_vars

\* C20: the shutdown sweep never raises and ends with an empty store, also
\* when handlers in flight change the store while a release is awaited.
C20_ShutdownNeverRaises ==
    /\ sd.pc # "raised"
    /\ sd.pc = "done" => DictLen(sessions) = 0

====
